---- MODULE Spec2Model ----
(***************************************************************************)
(* Genetic travelling-salesman engine: genetic_tsp (gen_tsp_detailed.cpp)  *)
(* and the helpers of genetic_utils.h (stdDev, sort_vector,                *)
(* rank_generation, move_top, crossover_firstHalf_withMutation, generate). *)
(*                                                                         *)
(* Buffers are flat and 0-based, as in the source: entry j of row r of a   *)
(* population buffer is cell r*numNodes+j.                                 *)
(***************************************************************************)
EXTENDS Integers, Sequences, FiniteSets

VARIABLES
    cfg,              \* the arguments of genetic_tsp
    cost_matrix,      \* numNodes*numNodes travel costs
    junk,             \* what an uninitialised heap cell reads as
    pc,               \* position of the main thread in genetic_tsp
    generation,       \* the current population buffer
    generation_copy,  \* the scratch population buffer
    generation_cost,  \* the cost vector
    generation_rank,  \* the index array sorted with the cost vector
    i,                \* the generation counter of genetic_tsp
    lastRounds,       \* the early-stop window, entries scaled by AVGELEMS
    solution,         \* tour, cost and converged flag returned
    wpc,              \* per worker thread: its position in generate
    slot_i,           \* per worker thread: the loop index i of generate
    parent1,          \* per worker thread: parent1 of generate
    parent2,          \* per worker thread: parent2 of generate
    swap1,            \* per worker thread: swap1 of the crossover
    direct,           \* history: rows used as parent1 in this generate call
    reads,            \* history: cells each slot has read in this call
    writes,           \* history: cells each slot has written in this call
    best5             \* history: sums of the 5 lowest tour costs, per generation

vars == <<cfg, cost_matrix, junk, pc, generation, generation_copy,
          generation_cost, generation_rank, i, lastRounds, solution,
          wpc, slot_i, parent1, parent2, swap1, direct, reads, writes, best5>>

----------------------------------------------------------------------------
(* Program constants *)

NUMTHREADS == 4
AVGELEMS == 5

(* Bounds of the model *)

MaxIt == 2          \* maxIt ranges over 1..MaxIt
MaxParam == 1       \* earlyStopParam is 0 or MaxParam
MaxCost == 1        \* the unit edge cost is 0 or MaxCost
MaxJunk == 1        \* an uninitialised cell reads as 0 or as MaxJunk
MaxSeed == 1        \* the seed given to srand ranges over 0..MaxSeed
XMaxNodes == 4      \* numNodes ranges over 2..XMaxNodes in CrossSpec

----------------------------------------------------------------------------
(* Helpers *)

Min(a, b) == IF a < b THEN a ELSE b

Nodes(numNodes) == 0 .. numNodes - 1

\* Row r of buffer g, as the function j |-> g[r*numNodes+j].
Row(g, r, numNodes) == [j \in Nodes(numNodes) |-> g[r * numNodes + j]]

RowCells(r, numNodes) == {r * numNodes + j : j \in Nodes(numNodes)}

IsPermutation(t, numNodes) ==
    /\ \A j \in Nodes(numNodes) : t[j] \in Nodes(numNodes)
    /\ \A j, k \in Nodes(numNodes) : j # k => t[j] # t[k]

Tours(numNodes) ==
    {t \in [Nodes(numNodes) -> Nodes(numNodes)] : IsPermutation(t, numNodes)}

\* The identity tour rotated left by r places.
Rotate(numNodes, r) == [j \in Nodes(numNodes) |-> (j + r) % numNodes]

RECURSIVE SumOver(_, _)
SumOver(f, S) ==
    IF S = {} THEN 0
    ELSE LET x == CHOOSE y \in S : TRUE IN f[x] + SumOver(f, S \ {x})

----------------------------------------------------------------------------
(* genetic_utils.h: stdDev.  The window holds rationals array[k]/denom;    *)
(* sqrt(var/len) <= param is decided exactly as                            *)
(*   SUM (len*array[k] - SUM array)^2  <=  denom^2 * len^3 * param^2.      *)

SquaredDeviations(array, len) ==
    LET total == SumOver(array, 0 .. len - 1)
        dev == [k \in 0 .. len - 1 |->
                   (len * array[k] - total) * (len * array[k] - total)]
    IN SumOver(dev, 0 .. len - 1)

stdDevWithin(array, len, denom, param) ==
    SquaredDeviations(array, len) <= denom * denom * len * len * len * param * param

----------------------------------------------------------------------------
(* genetic_utils.h: sort_vector (insertion sort of the cost vector, the    *)
(* index array following it).  A pair r is [cost |-> ..., rank |-> ...].   *)

RECURSIVE ShiftLarger(_, _, _)
ShiftLarger(r, j, key) ==
    IF j >= 0 /\ r.cost[j] > key
    THEN ShiftLarger([cost |-> [r.cost EXCEPT ![j + 1] = r.cost[j]],
                      rank |-> [r.rank EXCEPT ![j + 1] = r.rank[j]]], j - 1, key)
    ELSE [r |-> r, j |-> j]

\* One turn of the outer loop: entry k is the key, the larger entries before
\* it move up one place and the key takes the place left.
InsertKey(r, k) ==
    LET key == r.cost[k]
        key_idx == r.rank[k]
        s == ShiftLarger(r, k - 1, key)
    IN [cost |-> [s.r.cost EXCEPT ![s.j + 1] = key],
        rank |-> [s.r.rank EXCEPT ![s.j + 1] = key_idx]]

\* The outer loop from index k on.  (The set binds the vectors to their
\* value, so that each turn works on values and not on unevaluated turns.)
RECURSIVE InsertFrom(_, _, _)
InsertFrom(r, k, population) ==
    IF k < population
    THEN InsertFrom(CHOOSE out \in {InsertKey(v, k) : v \in {r}} : TRUE,
                    k + 1, population)
    ELSE r

sort_vector(rank, cost, population) ==
    InsertFrom([cost |-> cost, rank |-> rank], 1, population)

----------------------------------------------------------------------------
(* genetic_utils.h: rank_generation.  PathCost is what the loop body adds  *)
(* to generation_cost[row]: the wrap-around edge, then the adjacent edges. *)

RECURSIVE AdjacentCost(_, _, _, _, _, _)
AdjacentCost(g, cm, row, j, destination, numNodes) ==
    IF j < numNodes - 1
    THEN LET source == destination
             dest2 == g[row * numNodes + j + 1]
         IN cm[source * numNodes + dest2]
              + AdjacentCost(g, cm, row, j + 1, dest2, numNodes)
    ELSE 0

PathCost(g, cm, row, numNodes) ==
    LET source == g[row * numNodes + numNodes - 1]
        destination == g[row * numNodes]
    IN cm[source * numNodes + destination]
         + AdjacentCost(g, cm, row, 0, destination, numNodes)

\* The value generation_cost[row] holds after the loop body of rank_generation.
AccumulatedCost(old, g, cm, row, numNodes) == old + PathCost(g, cm, row, numNodes)

rank_generation(cost, g, cm, numNodes, population) ==
    sort_vector([k \in 0 .. population - 1 |-> k],
                [k \in 0 .. population - 1 |->
                    AccumulatedCost(cost[k], g, cm, k, numNodes)],
                population)

----------------------------------------------------------------------------
(* genetic_utils.h: move_top.  Rows rank[0..best_num-1] of the current     *)
(* buffer are copied to rows 0..best_num-1 of the scratch buffer, then the *)
(* two buffers change roles.                                               *)

TopRowsCopied(rank, g, copy, numNodes, bestNum) ==
    [c \in DOMAIN copy |->
        IF c < bestNum * numNodes
        THEN g[rank[c \div numNodes] * numNodes + (c % numNodes)]
        ELSE copy[c]]

move_top(rank, g, copy, numNodes, bestNum) ==
    [generation |-> TopRowsCopied(rank, g, copy, numNodes, bestNum),
     generation_copy |-> g]

----------------------------------------------------------------------------
(* genetic_utils.h: crossover_firstHalf_withMutation.  The two copy loops  *)
(* run on the buffer as it is being written; x.j counts the entries        *)
(* written so far into the son row, which starts at cell son.              *)

\* Mutant of half: the half rounded up.
halfRoundedUp(numNodes) == (numNodes + 1) \div 2

half(numNodes) == numNodes \div 2

RECURSIVE TakeFirstHalf(_, _, _, _, _, _)
TakeFirstHalf(g, nodes, j, p1, son, numNodes) ==
    IF j < half(numNodes)
    THEN LET elem == g[p1 * numNodes + j]
         IN TakeFirstHalf([g EXCEPT ![son + j] = elem], nodes \cup {elem},
                          j + 1, p1, son, numNodes)
    ELSE [g |-> g, nodes |-> nodes, j |-> j]

RECURSIVE AddRemaining(_, _, _, _, _, _, _)
AddRemaining(g, nodes, j, k, p2, son, numNodes) ==
    IF k < numNodes
    THEN LET elem == g[p2 * numNodes + k]
         IN IF elem \notin nodes
            THEN AddRemaining([g EXCEPT ![son + j] = elem], nodes, j + 1, k + 1,
                              p2, son, numNodes)
            ELSE AddRemaining(g, nodes, j, k + 1, p2, son, numNodes)
    ELSE [g |-> g, j |-> j]

\* Mutant of CrossoverCopy: the nodes taken from parent1 are not recorded.
CrossoverCopyNoSet(g, p1, p2, son, numNodes) ==
    LET first == TakeFirstHalf(g, {}, 0, p1, son, numNodes)
    IN AddRemaining(first.g, {}, first.j, 0, p2, son, numNodes)

\* Both copy loops: the buffer afterwards and the number of entries written.
CrossoverCopy(g, p1, p2, son, numNodes) ==
    LET first == TakeFirstHalf(g, {}, 0, p1, son, numNodes)
    IN AddRemaining(first.g, first.nodes, first.j, 0, p2, son, numNodes)

\* (rand()%100+1) <= (mutatProb*100), roll standing for rand()%100+1.
MutationFires(roll, mutatPct) == roll <= mutatPct

\* The swap of the mutation.
MutationSwap(g, son, s1, s2) ==
    [g EXCEPT ![son + s1] = g[son + s2], ![son + s2] = g[son + s1]]

\* Cells the copy loops read and write, and the cells the swap touches.
CopyReads(p1, p2, numNodes) ==
    {p1 * numNodes + j : j \in 0 .. half(numNodes) - 1} \cup RowCells(p2, numNodes)

CopyWrites(son, written) == {son + j : j \in 0 .. written - 1}

SwapCells(son, s1, s2) == {son + s1, son + s2}

----------------------------------------------------------------------------
(* gen_tsp_detailed.cpp: the arguments of genetic_tsp and what main admits *)

\* best_num = population*top, truncated; top is topPct/100.
best_num == (cfg.population * cfg.topPct) \div 100

\* main, lines 136-143: the configurations that pass validation.
ValidConfig(c) ==
    /\ c.numThreads >= 1
    /\ c.topPct >= 0 /\ c.topPct <= 100
    /\ c.population >= AVGELEMS
    /\ c.numNodes > 1
    /\ c.maxIt >= 0
    /\ c.mutatPct >= 0 /\ c.mutatPct <= 100
    /\ c.earlyStopRounds <= c.maxIt /\ c.earlyStopRounds > 0
    /\ c.earlyStopParam >= 0

\* One top for every best_num a population of AVGELEMS tours can have.
TopPcts == {(100 * b) \div AVGELEMS : b \in 0 .. AVGELEMS}

\* The numbers of nodes of the runs of genetic_tsp considered.
NodeCounts == {2, 3}

\* rand()%100+1 draws considered: the least and the greatest.
Rolls == {1, 100}

AllConfigs ==
    [numThreads : {1, NUMTHREADS}, numNodes : NodeCounts,
     population : {AVGELEMS}, topPct : TopPcts, maxIt : 1 .. MaxIt,
     mutatPct : {0, 100}, earlyStopRounds : 1 .. MaxIt,
     earlyStopParam : {0, MaxParam}]

\* The admitted configurations considered: runs of a team of NUMTHREADS
\* threads, and runs that mutate tours of more than 2 nodes, are kept to one
\* generation.
Configs ==
    {c \in AllConfigs :
        /\ ValidConfig(c)
        /\ c.numThreads > 1 => c.maxIt = 1 /\ c.earlyStopParam = 0
        /\ (c.numNodes > 2 /\ c.mutatPct > 0) => c.maxIt = 1}

\* Symmetric matrices with a zero diagonal: cost(a,b) = unit * |a-b|.
CostMatrix(numNodes, unit) ==
    [c \in 0 .. numNodes * numNodes - 1 |->
        LET a == c \div numNodes
            b == c % numNodes
        IN unit * (IF a < b THEN b - a ELSE a - b)]

\* The shuffles follow from the seed main gives srand (line 152): the
\* populations considered have row k the identity rotated k*(seed+1) places.
ShuffledPopulation(numNodes, population, seed) ==
    [c \in 0 .. population * numNodes - 1 |->
        Rotate(numNodes, (c \div numNodes) * (seed + 1))[c % numNodes]]

Cells == 0 .. cfg.population * cfg.numNodes - 1
Rows == 0 .. cfg.population - 1
Workers == 0 .. cfg.numThreads - 1
Slots == 0 .. cfg.population - best_num - 1

\* schedule(static): the iterations of generate's loop dealt to the team in
\* contiguous chunks, the first (n % t) threads taking one more.
ChunkLo(w) ==
    LET n == cfg.population - best_num
        q == n \div cfg.numThreads
        r == n % cfg.numThreads
    IN IF w < r THEN w * (q + 1) ELSE w * q + r

ChunkHi(w) ==
    LET n == cfg.population - best_num
        q == n \div cfg.numThreads
        r == n % cfg.numThreads
    IN ChunkLo(w) + (IF w < r THEN q + 1 ELSE q)

----------------------------------------------------------------------------
(* genetic_tsp, lines 44-51: the buffers are allocated and not initialised *)

Init ==
    /\ cfg \in Configs
    /\ \E unit \in {0, MaxCost} : cost_matrix = CostMatrix(cfg.numNodes, unit)
    /\ junk \in {0, MaxJunk}
    /\ pc = "init"
    /\ generation = [c \in Cells |-> junk]
    /\ generation_copy = [c \in Cells |-> junk]
    /\ generation_cost = [k \in Rows |-> junk]
    /\ generation_rank = [k \in Rows |-> junk]
    /\ i = 0
    /\ lastRounds = [k \in 0 .. cfg.earlyStopRounds - 1 |-> junk]
    /\ solution = [k \in 0 .. cfg.numNodes + 1 |-> junk]
    /\ wpc = [w \in Workers |-> "idle"]
    /\ slot_i = [w \in Workers |-> 0]
    /\ parent1 = [w \in Workers |-> 0]
    /\ parent2 = [w \in Workers |-> 0]
    /\ swap1 = [w \in Workers |-> 0]
    /\ direct = {}
    /\ reads = [s \in Slots |-> {}]
    /\ writes = [s \in Slots |-> {}]
    /\ best5 = [g \in 1 .. cfg.maxIt |-> 0]

workerVars == <<wpc, slot_i, parent1, parent2, swap1>>
history == <<direct, reads, writes>>

\* lines 54-58: every row becomes a shuffled tour.
Shuffle ==
    /\ pc = "init"
    /\ \E seed \in 0 .. MaxSeed :
          generation' = ShuffledPopulation(cfg.numNodes, cfg.population, seed)
    /\ pc' = "first_ranking"
    /\ UNCHANGED <<cfg, cost_matrix, junk, generation_copy, generation_cost,
                   generation_rank, i, lastRounds, solution, workerVars, history,
                   best5>>

\* The ranking call of genetic_tsp: rank_generation, then move_top.
Ranked ==
    LET r == rank_generation(generation_cost, generation, cost_matrix,
                             cfg.numNodes, cfg.population)
        m == move_top(r.rank, generation, generation_copy, cfg.numNodes, best_num)
    IN [cost |-> r.cost, rank |-> r.rank,
        generation |-> m.generation, generation_copy |-> m.generation_copy]

\* lines 103-104 (and 66-67): the tour of row 0, its cost, the flag.
Returned(g, cost, flag) ==
    [k \in 0 .. cfg.numNodes + 1 |->
        IF k < cfg.numNodes THEN g[k]
        ELSE IF k = cfg.numNodes THEN cost[0] ELSE flag]

\* The omp parallel for of generate starts: each thread of the team at the
\* first slot of its chunk.
Forked ==
    /\ wpc' = [w \in Workers |-> IF ChunkLo(w) < ChunkHi(w) THEN "select" ELSE "end"]
    /\ slot_i' = [w \in Workers |-> ChunkLo(w)]
    /\ parent1' = [w \in Workers |-> 0]
    /\ parent2' = [w \in Workers |-> 0]
    /\ swap1' = [w \in Workers |-> 0]
    /\ direct' = {}
    /\ reads' = [s \in Slots |-> {}]
    /\ writes' = [s \in Slots |-> {}]

\* Mutant of Degenerate: the test never holds.
DegenerateNever == cfg.population < best_num

\* line 65: population == best_num.
Degenerate == cfg.population = best_num

\* lines 60-72: first ranking, the degenerate return, entry of the loop.
FirstRanking ==
    /\ pc = "first_ranking"
    /\ generation' = Ranked.generation
    /\ generation_copy' = Ranked.generation_copy
    /\ generation_cost' = Ranked.cost
    /\ generation_rank' = Ranked.rank
    /\ IF Degenerate
       THEN /\ solution' = Returned(Ranked.generation, Ranked.cost, 0)
            /\ pc' = "done"
            /\ UNCHANGED <<i, workerVars, history>>
       ELSE /\ i' = 1
            /\ IF 1 <= cfg.maxIt
               THEN /\ solution' = [solution EXCEPT ![cfg.numNodes + 1] = 0]
                    /\ pc' = "generate"
                    /\ Forked
               ELSE /\ solution' = Returned(Ranked.generation, Ranked.cost, 0)
                    /\ pc' = "done"
                    /\ UNCHANGED <<workerVars, history>>
    /\ UNCHANGED <<cfg, cost_matrix, junk, lastRounds, best5>>

----------------------------------------------------------------------------
(* genetic_utils.h: generate.  Worker w runs the loop body for the slots   *)
(* of its chunk; slot_i[w] is the loop index i, and the son row of slot i  *)
(* starts at cell (best_num+i)*numNodes.                                   *)

\* Mutants of Son: the elite rows are not skipped; every slot has one row.
SonWithoutOffset(w) == slot_i[w] * cfg.numNodes
SonOfFirstSlot(w) == best_num * cfg.numNodes

Son(w) == (best_num + slot_i[w]) * cfg.numNodes

\* The loop body is over: the private variables are dead until the next
\* slot assigns them, and are cleared here.
SlotDone(w) ==
    /\ slot_i' = [slot_i EXCEPT ![w] = slot_i[w] + 1]
    /\ wpc' = [wpc EXCEPT ![w] = IF slot_i[w] + 1 < ChunkHi(w) THEN "select" ELSE "end"]
    /\ parent1' = [parent1 EXCEPT ![w] = 0]
    /\ parent2' = [parent2 EXCEPT ![w] = 0]
    /\ swap1' = [swap1 EXCEPT ![w] = 0]

\* lines 186-191.  rand()%best_num with best_num = 0 divides by zero: the
\* process is killed (SIGFPE, or the wild row index the remainder yields).
SelectParent1(w) ==
    /\ pc = "generate"
    /\ wpc[w] = "select"
    /\ IF slot_i[w] < best_num
       THEN /\ parent1' = [parent1 EXCEPT ![w] = slot_i[w]]
            /\ wpc' = [wpc EXCEPT ![w] = "draw"]
            /\ pc' = pc
       ELSE IF best_num = 0
       THEN /\ pc' = "crashed"
            /\ UNCHANGED <<parent1, wpc>>
       ELSE /\ \E r \in 0 .. best_num - 1 : parent1' = [parent1 EXCEPT ![w] = r]
            /\ wpc' = [wpc EXCEPT ![w] = "draw"]
            /\ pc' = pc
    /\ UNCHANGED <<cfg, cost_matrix, junk, generation, generation_copy,
                   generation_cost, generation_rank, i, lastRounds, solution,
                   slot_i, parent2, swap1, history, best5>>

\* lines 193-195: one turn of the do-while; it repeats while parent2 == i.
DrawParent2(w) ==
    /\ pc = "generate"
    /\ wpc[w] = "draw"
    /\ \E r \in 0 .. best_num - 1 :
          /\ parent2' = [parent2 EXCEPT ![w] = r]
          /\ wpc' = [wpc EXCEPT ![w] = IF r = slot_i[w] THEN "draw" ELSE "cross"]
    /\ UNCHANGED <<cfg, cost_matrix, junk, pc, generation, generation_copy,
                   generation_cost, generation_rank, i, lastRounds, solution,
                   slot_i, parent1, swap1, history, best5>>

\* lines 197-199 and crossover lines 141-159: the copy loops, the mutation
\* roll and, when it fires, the draw of swap1.
Crossover(w) ==
    /\ pc = "generate"
    /\ wpc[w] = "cross"
    /\ LET x == CrossoverCopy(generation, parent1[w], parent2[w], Son(w), cfg.numNodes)
       IN /\ generation' = x.g
          /\ reads' = [reads EXCEPT ![slot_i[w]] =
                          @ \cup CopyReads(parent1[w], parent2[w], cfg.numNodes)]
          /\ writes' = [writes EXCEPT ![slot_i[w]] = @ \cup CopyWrites(Son(w), x.j)]
    /\ direct' = direct \cup {parent1[w]}
    /\ \E roll \in Rolls :
          IF MutationFires(roll, cfg.mutatPct)
          THEN /\ \E s1 \in Nodes(cfg.numNodes) : swap1' = [swap1 EXCEPT ![w] = s1]
               /\ wpc' = [wpc EXCEPT ![w] = "mutate"]
               /\ UNCHANGED <<slot_i, parent1, parent2>>
          ELSE SlotDone(w)
    /\ UNCHANGED <<cfg, cost_matrix, junk, pc, generation_copy, generation_cost,
                   generation_rank, i, lastRounds, solution, best5>>

\* crossover lines 160-166: one turn of the swap2 do-while, then the swap.
Mutate(w) ==
    /\ pc = "generate"
    /\ wpc[w] = "mutate"
    /\ \E s2 \in Nodes(cfg.numNodes) :
          IF s2 = swap1[w]
          THEN UNCHANGED <<generation, workerVars, history>>
          ELSE /\ generation' = MutationSwap(generation, Son(w), swap1[w], s2)
               /\ reads' = [reads EXCEPT ![slot_i[w]] =
                               @ \cup SwapCells(Son(w), swap1[w], s2)]
               /\ writes' = [writes EXCEPT ![slot_i[w]] =
                                @ \cup SwapCells(Son(w), swap1[w], s2)]
               /\ SlotDone(w)
               /\ UNCHANGED direct
    /\ UNCHANGED <<cfg, cost_matrix, junk, pc, generation_copy, generation_cost,
                   generation_rank, i, lastRounds, solution, best5>>

----------------------------------------------------------------------------
(* genetic_tsp, lines 83-101 *)

\* The sum of the n lowest of the tour costs of buffer g, each computed from
\* the cost matrix alone.
RECURSIVE LowestSum(_, _, _)
LowestSum(costs, S, n) ==
    IF n = 0 \/ S = {} THEN 0
    ELSE LET k == CHOOSE x \in S : \A y \in S : costs[x] <= costs[y]
         IN costs[k] + LowestSum(costs, S \ {k}, n - 1)

TourCost(g, row) == PathCost(g, cost_matrix, row, cfg.numNodes)

\* line 85, once the team of generate has joined.
Ranking ==
    /\ pc = "generate"
    /\ \A w \in Workers : wpc[w] = "end"
    /\ generation' = Ranked.generation
    /\ generation_copy' = Ranked.generation_copy
    /\ generation_cost' = Ranked.cost
    /\ generation_rank' = Ranked.rank
    /\ best5' = [best5 EXCEPT ![i] =
                    LowestSum([k \in Rows |-> TourCost(generation, k)], Rows, AVGELEMS)]
    /\ pc' = "observe"
    /\ wpc' = [w \in Workers |-> "idle"]
    /\ direct' = {}
    /\ reads' = [s \in Slots |-> {}]
    /\ writes' = [s \in Slots |-> {}]
    /\ UNCHANGED <<cfg, cost_matrix, junk, i, lastRounds, solution,
                   slot_i, parent1, parent2, swap1>>

\* lines 90-94: avg is the sum of the first AVGELEMS costs; the window entry
\* avg/AVGELEMS is kept as its numerator avg.
WindowAfter ==
    [lastRounds EXCEPT ![(i - 1) % cfg.earlyStopRounds] =
        SumOver(generation_cost, 0 .. AVGELEMS - 1)]

\* line 97.
EarlyStop ==
    /\ i >= cfg.earlyStopRounds
    /\ stdDevWithin(WindowAfter, cfg.earlyStopRounds, AVGELEMS, cfg.earlyStopParam)

\* lines 89-104: the window, the early-stop test, the next turn or the return.
Observe ==
    /\ pc = "observe"
    /\ lastRounds' = WindowAfter
    /\ IF EarlyStop
       THEN /\ solution' = Returned(generation, generation_cost, 1)
            /\ pc' = "done"
            /\ UNCHANGED <<i, workerVars, history>>
       ELSE /\ i' = i + 1
            /\ IF i + 1 <= cfg.maxIt
               THEN /\ pc' = "generate"
                    /\ Forked
                    /\ UNCHANGED solution
               ELSE /\ solution' = Returned(generation, generation_cost, solution[cfg.numNodes + 1])
                    /\ pc' = "done"
                    /\ UNCHANGED <<workerVars, history>>
    /\ UNCHANGED <<cfg, cost_matrix, junk, generation, generation_copy,
                   generation_cost, generation_rank, best5>>

Next ==
    \/ Shuffle
    \/ FirstRanking
    \/ \E w \in Workers : SelectParent1(w)
    \/ \E w \in Workers : DrawParent2(w)
    \/ \E w \in Workers : Crossover(w)
    \/ \E w \in Workers : Mutate(w)
    \/ Ranking
    \/ Observe

Spec == Init /\ [][Next]_vars

\* The runs of one thread on tours of 2 nodes with top > 0, under fairness:
\* the thread goes on when it can and rand() is fair, so a loop turn that can
\* be left is left.
FairInit ==
    Init /\ cfg.numThreads = 1 /\ cfg.numNodes = 2 /\ cfg.topPct > 0 /\ junk = 0

FairSpec ==
    /\ FairInit
    /\ [][Next]_vars
    /\ WF_vars(Shuffle \/ FirstRanking \/ Ranking \/ Observe)
    /\ WF_vars(SelectParent1(0) \/ DrawParent2(0) \/ Crossover(0) \/ Mutate(0))

----------------------------------------------------------------------------
(* crossover_firstHalf_withMutation on its own: one call made by slot 2 of *)
(* a generate over two elite rows, for every pair of parent tours.  Rows 2 *)
(* and 3 hold the children slots 0 and 1 produced without mutating.        *)

XConfigs ==
    [numThreads : {1}, numNodes : 2 .. XMaxNodes, population : {AVGELEMS},
     topPct : {40}, maxIt : {1}, mutatPct : {50}, earlyStopRounds : {1},
     earlyStopParam : {0}]

XPopulation(t0, t1, numNodes) ==
    LET elite == [c \in 0 .. AVGELEMS * numNodes - 1 |->
                     IF c < numNodes THEN t0[c]
                     ELSE IF c < 2 * numNodes THEN t1[c - numNodes] ELSE 0]
        s0 == CrossoverCopy(elite, 0, 1, 2 * numNodes, numNodes).g
    IN CrossoverCopy(s0, 1, 0, 3 * numNodes, numNodes).g

XInit ==
    /\ cfg \in XConfigs
    /\ cost_matrix = CostMatrix(cfg.numNodes, 0)
    /\ junk = 0
    /\ pc = "generate"
    /\ \E t0, t1 \in Tours(cfg.numNodes) :
          generation = XPopulation(t0, t1, cfg.numNodes)
    /\ generation_copy = [c \in Cells |-> junk]
    /\ generation_cost = [k \in Rows |-> 0]
    /\ generation_rank = [k \in Rows |-> k]
    /\ i = 1
    /\ lastRounds = [k \in 0 .. cfg.earlyStopRounds - 1 |-> junk]
    /\ solution = [k \in 0 .. cfg.numNodes + 1 |-> 0]
    /\ wpc = [w \in Workers |-> "cross"]
    /\ slot_i = [w \in Workers |-> 2]
    /\ parent1 \in [Workers -> 0 .. 1]
    /\ parent2 \in [Workers -> 0 .. 1]
    /\ swap1 = [w \in Workers |-> 0]
    /\ direct = {0, 1}
    /\ reads = [s \in Slots |->
                   IF s = 0 THEN CopyReads(0, 1, cfg.numNodes)
                   ELSE IF s = 1 THEN CopyReads(1, 0, cfg.numNodes) ELSE {}]
    /\ writes = [s \in Slots |->
                    IF s < 2 THEN RowCells(best_num + s, cfg.numNodes) ELSE {}]
    /\ best5 = [g \in 1 .. cfg.maxIt |-> 0]

XCrossover == Crossover(0)
XMutate == Mutate(0)
XNext == XCrossover \/ XMutate

CrossSpec == XInit /\ [][XNext]_vars

----------------------------------------------------------------------------
(* Properties *)

EliteCells == 0 .. best_num * cfg.numNodes - 1

AllRowsTours(g) == \A r \in Rows : IsPermutation(Row(g, r, cfg.numNodes), cfg.numNodes)

TeamJoined == pc = "generate" /\ \A w \in Workers : wpc[w] = "end"

TeamForked == pc = "generate" /\ \A w \in Workers : slot_i[w] = ChunkLo(w)

\* A ranking has been made and its buffers stand as it left them: the cost
\* vector and the index array change in rankings only, and the buffer the
\* ranking read is the scratch buffer until the next ranking.
AfterRanking == pc \in {"generate", "observe", "done", "crashed"}

\* C1 as stated: after the shuffle, after every ranking swap and after every
\* generate, every row of the current buffer is a permutation of the nodes.
C1_EveryRowAlways ==
    (pc = "first_ranking" \/ pc = "observe" \/ pc = "done" \/ TeamForked \/ TeamJoined)
        => AllRowsTours(generation)

\* C1 amended: from the shuffle onward every row of the current buffer is a
\* permutation of the nodes, except that from the first ranking swap until
\* the first generate has written it, a row at index >= best_num holds the
\* uninitialised cells of the scratch buffer.
C1_RowsAreTours ==
    pc # "init" =>
        \A r \in Rows :
            \/ IsPermutation(Row(generation, r, cfg.numNodes), cfg.numNodes)
            \/ /\ i = 1
               /\ pc \in {"generate", "crashed"}
               /\ r >= best_num
               /\ writes[r - best_num] = {}
               /\ \A j \in Nodes(cfg.numNodes) : generation[r * cfg.numNodes + j] = junk

\* C1 witness: the third swap has been made (the ranking of generation 2) in
\* a run with two elite rows.
C1_Witness ==
    /\ pc = "observe" /\ i = 2 /\ best_num = 2
    /\ AllRowsTours(generation)

\* Where node v stands in tour t.
Position(t, v, numNodes) == CHOOSE j \in Nodes(numNodes) : t[j] = v

\* The son row is a permutation; its first floor(numNodes/2) entries are those
\* of tour t1 in order, and the others stand in the order they have in t2.
IsChildOf(son, t1, t2, numNodes) ==
    /\ IsPermutation(son, numNodes)
    /\ \A j \in 0 .. (numNodes \div 2) - 1 : son[j] = t1[j]
    /\ \A a, b \in (numNodes \div 2) .. numNodes - 1 :
          a < b => Position(t2, son[a], numNodes) < Position(t2, son[b], numNodes)

\* C2: a crossover call with parents in [0, best_num) that are tours (the
\* same row or not) writes exactly the numNodes cells of the son row; before
\* the mutation the son is parent1's first half followed by the other nodes
\* in parent2's order, and after the mutation swap it is still a permutation.
C2_Crossover ==
    [][LET n == cfg.numNodes
           r == best_num + slot_i[0]
       IN /\ (wpc[0] = "cross" /\ wpc'[0] # "cross") =>
                /\ writes'[slot_i[0]] = RowCells(r, n)
                /\ \A c \in Cells \ RowCells(r, n) : generation'[c] = generation[c]
                /\ IsChildOf(Row(generation', r, n), Row(generation, parent1[0], n),
                             Row(generation, parent2[0], n), n)
          /\ (wpc[0] = "mutate" /\ wpc'[0] # "mutate") =>
                /\ writes'[slot_i[0]] = RowCells(r, n)
                /\ IsPermutation(Row(generation', r, n), n)
                /\ Row(generation', r, n) # Row(generation, r, n)]_vars

\* C2 witness: a call on two different parent tours of 4 nodes has returned
\* after mutating, and the son is a tour that is neither parent.
C2_Witness ==
    /\ cfg.numNodes = 4 /\ wpc[0] = "end"
    /\ reads[2] \cap RowCells(4, 4) # {}
    /\ Row(generation, 0, 4) # Row(generation, 1, 4)
    /\ IsPermutation(Row(generation, 4, 4), 4)
    /\ Row(generation, 4, 4) \notin {Row(generation, 0, 4), Row(generation, 1, 4)}

\* C5: no step of generate changes a cell of rows 0..best_num-1, and every
\* cell a slot writes lies in rows best_num..population-1: the elite rows
\* stand at the next ranking as the last ranking left them.
C5_ElitesKept ==
    [][(pc = "generate" /\ pc' # "observe") =>
          /\ \A c \in EliteCells : generation'[c] = generation[c]
          /\ \A s \in Slots :
                writes'[s] \subseteq
                    (best_num * cfg.numNodes .. cfg.population * cfg.numNodes - 1)]_vars

\* C5 witness: the generate of generation 2 is over, with two elite rows and
\* every child row written.
C5_Witness ==
    /\ TeamJoined /\ i = 2 /\ best_num = 2
    /\ \A s \in Slots : writes[s] # {}

\* The cost of the tour in row r of buffer g: its numNodes-1 adjacent edges
\* and the edge from its last node back to its first.
TrueCost(g, r) ==
    LET n == cfg.numNodes
        edge == [k \in 0 .. n - 1 |->
                    cost_matrix[g[r * n + k] * n + g[r * n + ((k + 1) % n)]]]
    IN SumOver(edge, 0 .. n - 1)

\* C8: with best_num = population the run makes the first ranking only: no
\* generate, no turn of the loop; it returns row 0 of the ranked population,
\* the cost vector's entry 0 (the cost of that tour when the vector was
\* allocated zeroed) and the flag 0.
C8_DegenerateReturn ==
    cfg.population = (cfg.population * cfg.topPct) \div 100 =>
        /\ pc \in {"init", "first_ranking", "done"}
        /\ i = 0
        /\ \A w \in Workers : wpc[w] = "idle"
        /\ pc = "done" =>
              /\ \A k \in Nodes(cfg.numNodes) :
                    solution[k] = generation_copy[generation_rank[0] * cfg.numNodes + k]
              /\ solution[cfg.numNodes] = generation_cost[0]
              /\ \A k \in Rows : generation_cost[0] <= generation_cost[k]
              /\ junk = 0 => solution[cfg.numNodes] = TrueCost(generation, 0)
              /\ solution[cfg.numNodes + 1] = 0

\* C8 witness: a run with top = 1 and maxIt = 2 has returned.
C8_Witness ==
    /\ pc = "done" /\ cfg.topPct = 100 /\ cfg.maxIt = 2 /\ cfg.earlyStopRounds = 1
    /\ AllRowsTours(generation)

ChildCells(s) == RowCells(best_num + s, cfg.numNodes)

\* C10 as stated: in a generate run by the team, no two slots write the same
\* cell, no slot writes a cell that any slot reads, slot s writes only row
\* best_num+s and reads only rows below best_num.
C10_NoSlotReadsWritten ==
    pc = "generate" =>
        /\ \A s, t \in Slots : s # t => writes[s] \cap writes[t] = {}
        /\ \A s, t \in Slots : writes[s] \cap reads[t] = {}
        /\ \A s \in Slots : writes[s] \subseteq ChildCells(s)
        /\ \A s \in Slots : reads[s] \subseteq EliteCells

\* C10 amended: slot s writes only row best_num+s and reads only the elite
\* rows and, in the mutation swap, its own row best_num+s; no slot writes a
\* cell another slot reads or writes.  Hence the row a slot leaves is the
\* child its own draws (parent1, parent2, swap1, swap2) make of the elite
\* rows, whatever the other threads have done in between.
C10_SlotsApart ==
    /\ [](pc = "generate" =>
            /\ \A s \in Slots : writes[s] \subseteq ChildCells(s)
            /\ \A s \in Slots : reads[s] \subseteq EliteCells \cup ChildCells(s)
            /\ \A s, t \in Slots :
                  s # t => writes[s] \cap (reads[t] \cup writes[t]) = {})
    /\ [][\A w \in Workers :
            (pc = "generate" /\ wpc[w] = "mutate" /\ wpc'[w] # "mutate") =>
                LET n == cfg.numNodes
                    r == best_num + slot_i[w]
                    copied == CrossoverCopy(generation, parent1[w], parent2[w],
                                            r * n, n).g
                IN \E s2 \in Nodes(n) \ {swap1[w]} :
                      Row(generation', r, n) =
                          Row(MutationSwap(copied, r * n, swap1[w], s2), r, n)]_vars

\* C10 witness: a team of NUMTHREADS threads has finished a generate in which
\* two slots mutated their child.
C10_Witness ==
    /\ TeamJoined /\ cfg.numThreads = NUMTHREADS /\ cfg.numNodes = 3
    /\ \E s, t \in Slots :
          /\ s # t
          /\ reads[s] \cap ChildCells(s) # {}
          /\ reads[t] \cap ChildCells(t) # {}

\* C3: after every ranking the cost recorded at index k is the cost of the
\* tour it ranks (row generation_rank[k] of the buffer that was ranked),
\* whatever the cost vector held before.
C3_CostsComputedAfresh ==
    AfterRanking =>
        \A k \in Rows : generation_cost[k] = TrueCost(generation_copy, generation_rank[k])

\* C4: after every ranking the cost vector is non-decreasing, and row 0 of
\* the current buffer is a tour of least cost among the tours that were
\* ranked, with the cost vector's entry 0 equal to that cost.
C4_BestFirst ==
    AfterRanking =>
        /\ \A k \in 0 .. cfg.population - 2 : generation_cost[k] <= generation_cost[k + 1]
        /\ \A r \in Rows : TrueCost(generation, 0) <= TrueCost(generation_copy, r)
        /\ generation_cost[0] = TrueCost(generation, 0)

\* C6: every run of an admitted configuration ends in Done.
C6_Terminates == <>(pc = "done")

\* The early-stop test of generation g taken on the window of the true
\* best-5 sums of generations g-earlyStopRounds+1 .. g.
TrueStop(g) ==
    /\ g >= cfg.earlyStopRounds
    /\ stdDevWithin([k \in 0 .. cfg.earlyStopRounds - 1 |->
                        best5[g - cfg.earlyStopRounds + 1 + k]],
                    cfg.earlyStopRounds, AVGELEMS, cfg.earlyStopParam)

\* C7: the entry written at generation g, in slot (g-1) mod earlyStopRounds,
\* is the mean of the 5 lowest tour costs of generation g, and the loop stops
\* flagged converged at the first generation g >= earlyStopRounds whose
\* window has a standard deviation <= earlyStopParam, and at no other.
C7_ConvergesAtFirstQuietWindow ==
    LET flag == solution[cfg.numNodes + 1]
        observed == IF pc = "done" /\ flag = 1 THEN i ELSE i - 1
    IN (pc \in {"generate", "done"} /\ best_num # cfg.population) =>
          /\ observed >= 1 =>
                lastRounds[(observed - 1) % cfg.earlyStopRounds] = best5[observed]
          /\ \A g \in 1 .. observed :
                TrueStop(g) <=> (pc = "done" /\ flag = 1 /\ g = i)

\* C9: when a generate is over, every elite row has been parent1 of a slot.
C9_EveryEliteIsParent1 ==
    (TeamJoined /\ best_num >= 1) => \A e \in 0 .. best_num - 1 : e \in direct

====
